---- MODULE Spec2Model ----
(***************************************************************************)
(* Model of the OpenCode process supervisor (OpenCodeManager) of           *)
(* packages/desktop/src-tauri/src/opencode_manager.rs.                     *)
(*                                                                         *)
(* Callers are concurrent async tasks invoking the public operations of    *)
(* one (cloned, Arc-shared) manager.  Each action below is one run of a    *)
(* caller from one suspension point (.await) to the next; the environment  *)
(* actions are the child processes (their exit and their output lines).    *)
(* Time is abstracted: a timeout may fire whenever the awaited condition   *)
(* does not hold.  Strings are sequences of one-character strings.         *)
(***************************************************************************)
EXTENDS Integers, Sequences, FiniteSets, TLC

\* ---------------------------------------------------------------- bounds
MaxSpawns == 2          \* processes spawned in one behaviour
NumCallers == 2         \* concurrent callers of the manager
MaxCalls == 3           \* public operations invoked in one behaviour
MaxPath == 5            \* characters of an inbound path in SpecRewrite
MaxLines == 3           \* output lines read in one behaviour of SpecIngest

Callers == 1..NumCallers
Pids == 1..MaxSpawns

\* ------------------------------------------------------ program constants
FixedPort == 4096       \* a non-zero OPENCHAMBER_OPENCODE_PORT
DynamicPort == 0        \* OPENCHAMBER_OPENCODE_PORT unset: the child picks its port
BasePort == 4096        \* child number q listens on BasePort + q when the port is dynamic
BigPort == 70000        \* port digits of an output line that do not fit u16
U16Max == 65535
NoPort == -1            \* Option<u16>::None

\* ---------------------------------------------------------------- strings
EMPTY == <<>>
ROOT == <<"/">>
API == <<"/", "a", "p", "i">>

IsSpace(ch) == ch \in {" ", "\t", "\n"}

RECURSIVE TrimStart(_)
TrimStart(s) ==
    IF s # <<>> /\ IsSpace(Head(s)) THEN TrimStart(Tail(s)) ELSE s

RECURSIVE TrimEnd(_)
TrimEnd(s) ==
    IF s # <<>> /\ IsSpace(s[Len(s)]) THEN TrimEnd(SubSeq(s, 1, Len(s) - 1)) ELSE s

Trim(s) == TrimEnd(TrimStart(s))

RECURSIVE TrimEndSlashes(_)
TrimEndSlashes(s) ==
    IF s # <<>> /\ s[Len(s)] = "/" THEN TrimEndSlashes(SubSeq(s, 1, Len(s) - 1)) ELSE s

normalize_api_prefix(prefix) ==
    LET trimmed == Trim(prefix) IN
    IF trimmed = EMPTY \/ trimmed = ROOT THEN EMPTY
    ELSE LET normalized == TrimEndSlashes(trimmed) IN
         IF normalized = <<>> \/ Head(normalized) # "/" THEN <<"/">> \o normalized
         ELSE normalized

\* Candidate prefixes of detect_api_prefix, in probing order.
candidates == <<EMPTY, API>>

\* ------------------------------------------------------------------ state
VARIABLES
    binary,         \* self.binary.is_some()
    desired_port,   \* self.desired_port (0: dynamic)
    platform,       \* "unix" | "windows" (cfg of graceful_stop)
    input,          \* the traffic of the environment that a specification keeps: the
                    \* lines read so far (SpecIngest), the responses of the server to
                    \* the two probes (SpecDetect); <<>> when the environment is free
    child,          \* self.child: 0 (None) or the pid of the stored handle
    lock,           \* holder of the self.child mutex, 0 when free
    port,           \* self.port: NoPort (None) or the port
    api_prefix,     \* self.api_prefix
    is_ready,       \* self.is_ready
    shutting_down,  \* self.shutting_down
    nspawn,         \* processes spawned so far; the next pid is nspawn + 1
    ncalls,         \* public operations invoked so far
    proc,           \* pid -> "unborn" | "alive" | "exited"
    sigs,           \* pid -> strongest signal the manager sent it: "none" | "term" | "kill"
    call,           \* caller -> the frame of its call (see Idle)
    working_dir,    \* self.working_dir
    cwd             \* pid -> the directory the process was launched in (NoDir: unborn)

shared == <<child, lock, port, api_prefix, is_ready, shutting_down>>
config == <<binary, desired_port, platform, input, working_dir>>
world == <<nspawn, proc, sigs, cwd>>
vars == <<config, shared, world, ncalls, call>>

\* The frame of a caller that is not in a call.
\*   pc        suspension point
\*   op        public operation in progress
\*   result    value returned (when pc = "done")
\*   gs_child  the local `child` of graceful_stop: the handle taken (0: none)
\*   sp_child  the local `child` of spawn_process: the child spawned (0: none)
\*   sig       first_signal_received of spawn_process
\*   lport     the local `port` of detect_api_prefix / wait_for_ready
\*   ann       history: sp_child printed a line with a parsable port (kept until the
\*             end of wait_for_port_detection)
\*   served    history: the child that answered the successful poll cycle (kept
\*             until is_ready is stored)
\*   cycle     history: the two responses of the last poll cycle
\*   last_error  the local `last_error` of wait_for_ready ("none": None)
\*   detail    the error detail of a failed wait_for_ready (when pc = "done")
\*   port0     history: on a supervisor with a configured port, self.port when
\*             restart() was called
\*   probed    history: port and prefix of the base URL of the last poll cycle
\*             whose requests were sent as a step of their own (SpecPoll)
Idle ==
    [pc |-> "idle", op |-> "none", result |-> "none", gs_child |-> 0, sp_child |-> 0,
     sig |-> FALSE, lport |-> NoPort, ann |-> FALSE, served |-> 0, cycle |-> <<>>,
     last_error |-> "none", detail |-> "none", port0 |-> NoPort, probed |-> <<>>]

Line(m, d, p) == [match |-> m, digits |-> d, path |-> p]

\* Output lines as ingest_output_line sees them through URL_REGEX: no match, or a
\* match with the port digits and the optional path group.  Child q prints lines
\* without a URL, URLs with the port BasePort + q and no path, the root path or
\* /api, and a URL whose port is not a u16.
NoPath == <<"-">>
Lines(q) ==
    {Line(FALSE, 0, NoPath), Line(TRUE, BasePort + q, NoPath), Line(TRUE, BasePort + q, ROOT),
     Line(TRUE, BasePort + q, API), Line(TRUE, BigPort, API)}

\* A faulty parse: digits beyond the u16 range wrap modulo 2^16.
ParseU16Wrapping(digits) == digits % (U16Max + 1)

\* m.as_str().parse::<u16>().ok()
ParseU16(digits) == IF digits <= U16Max THEN digits ELSE NoPort

\* The port child q listens on.
Listen(q) == IF desired_port = 0 THEN BasePort + q ELSE desired_port

\* The live children a request to 127.0.0.1:p can reach.
Responders(p) == {q \in Pids : proc[q] = "alive" /\ Listen(q) = p}

\* Outcomes of Child::try_wait on the handle of pid q.
TryWait(q) == IF proc[q] = "alive" THEN {"running", "err"} ELSE {"exited", "err"}

\* The directories a supervisor is given; the one it is constructed with.
WorkDirs == {"/w1", "/w2"}
InitialDir == "/w1"
NoDir == "-"

Ops == {"ensure_running", "restart", "shutdown", "is_child_running"}

\* A faulty construction: the manager is built already shutting down.
ShuttingDownBuiltSet == TRUE

\* Line 107: shutting_down: Arc::new(AtomicBool::new(false)).
ShuttingDownBuilt == FALSE

\* The manager after new_with_directory (lines 60-115), for a configured port among
\* `ports` and a build for a platform among `platforms`.
Start(ports, platforms) ==
    /\ binary \in BOOLEAN
    /\ desired_port \in ports
    /\ platform \in platforms
    /\ child = 0
    /\ lock = 0
    /\ port = NoPort
    /\ api_prefix = EMPTY
    /\ is_ready = FALSE
    /\ shutting_down = ShuttingDownBuilt
    /\ nspawn = 0
    /\ ncalls = 0
    /\ proc = [q \in Pids |-> "unborn"]
    /\ sigs = [q \in Pids |-> "none"]
    /\ call = [c \in Callers |-> Idle]
    /\ working_dir = InitialDir
    /\ cwd = [q \in Pids |-> NoDir]

\* A supervisor with a dynamic port, on either platform.
Init == Start({DynamicPort}, {"unix", "windows"}) /\ input = <<>>

\* A supervisor with a fixed port, on unix.
InitFixed == Start({FixedPort}, {"unix"}) /\ input = <<>>

\* ---------------------------------------------------------------- helpers
pc(c) == call[c].pc
op(c) == call[c].op

\* Caller c goes on with frame f.
Frame(c, f) == call' = [call EXCEPT ![c] = f]

\* Caller c suspends at l.
Goto(c, l) == Frame(c, [call[c] EXCEPT !.pc = l])

\* The call of caller c returns r: its locals die.
Done(c, r) == Frame(c, [Idle EXCEPT !.pc = "done", !.op = call[c].op, !.result = r])

\* ------------------------------------------------------- the public calls
\* A caller invokes a public operation, which runs to its first await: the lock of
\* self.child.  ensure_running fails at once without a binary (lines 122-124);
\* restart clears is_ready (line 158); shutdown sets shutting_down and clears is_ready
\* (lines 175-176).
\* A faulty test of the binary: it is taken to be there.
AvailableAlways == TRUE

\* Line 122: self.binary.is_some().
Available == binary

\* A faulty shutdown: the flag is left as it is.
ShuttingDownKept == shutting_down

\* Line 175: the value shutdown() stores in self.shutting_down.
ShuttingDownStored == TRUE

Call(c, o) ==
    /\ pc(c) = "idle"
    /\ ncalls < MaxCalls
    /\ ncalls' = ncalls + 1
    /\ CASE o = "ensure_running" ->
              /\ IF Available THEN Frame(c, [Idle EXCEPT !.pc = "er_lock", !.op = o])
                 ELSE Frame(c, [Idle EXCEPT !.pc = "done", !.op = o, !.result = "unavailable"])
              /\ UNCHANGED <<is_ready, shutting_down>>
         [] o = "restart" ->
              /\ is_ready' = FALSE
              /\ Frame(c, [Idle EXCEPT !.pc = "gs", !.op = o,
                                        !.port0 = IF desired_port = 0 THEN NoPort ELSE port])
              /\ UNCHANGED shutting_down
         [] o = "shutdown" ->
              /\ shutting_down' = ShuttingDownStored
              /\ is_ready' = FALSE
              /\ Frame(c, [Idle EXCEPT !.pc = "gs", !.op = o])
         [] o = "is_child_running" ->
              /\ Frame(c, [Idle EXCEPT !.pc = "icr", !.op = o])
              /\ UNCHANGED <<is_ready, shutting_down>>
    /\ UNCHANGED <<config, child, lock, port, api_prefix, world>>

\* The caller takes the returned value.
Return(c) ==
    /\ pc(c) = "done"
    /\ Frame(c, Idle)
    /\ UNCHANGED <<config, shared, world, ncalls>>

\* ------------------------------------------------------- ensure_running
\* A faulty early return: taken when the supervisor is not ready.
AlreadyRunningNotReady(tw) == tw = "running" /\ ~is_ready

\* Line 128: the early return of ensure_running, given try_wait's answer.
AlreadyRunning(tw) == tw = "running" /\ is_ready

\* Lines 303-306: the port is pre-set when it is configured.
PresetPort == IF desired_port > 0 THEN desired_port ELSE port

\* A faulty launch directory: the one the supervisor was constructed with.
SpawnDirInitial == InitialDir

\* Line 280: the directory spawn_process launches the child in.
SpawnDir == working_dir

\* Outcomes of cmd.spawn() (line 292); it fails once MaxSpawns children were made.
SpawnOutcomes == IF nspawn < MaxSpawns THEN {"spawned", "err"} ELSE {"err"}

\* Lines 133-134 and 270-323: is_ready is cleared, the child is spawned, the port
\* pre-set and the two readers started; spawn_process sleeps in its liveness loop.
SpawnProcess(c) ==
    /\ is_ready' = FALSE
    /\ \E so \in SpawnOutcomes :
          IF so = "err"
          THEN /\ Done(c, "launch")
               /\ UNCHANGED <<lock, port, world>>
          ELSE /\ lock' = c
               /\ nspawn' = nspawn + 1
               /\ proc' = [proc EXCEPT ![nspawn + 1] = "alive"]
               /\ cwd' = [cwd EXCEPT ![nspawn + 1] = SpawnDir]
               /\ port' = PresetPort
               /\ Frame(c, [call[c] EXCEPT !.pc = "sp_wait", !.sp_child = nspawn + 1,
                                           !.sig = FALSE, !.ann = FALSE])
               /\ UNCHANGED sigs

\* Lines 126-134: the lock is acquired; with a stored handle, try_wait()? and the
\* is_ready load decide the early return; otherwise the spawn.
ER_Begin(c) ==
    /\ pc(c) = "er_lock"
    /\ lock = 0
    /\ \E tw \in (IF child = 0 THEN {"none"} ELSE TryWait(child)) :
          IF tw = "err"
          THEN /\ Done(c, "trywait")
               /\ UNCHANGED <<lock, port, is_ready, world>>
          ELSE IF AlreadyRunning(tw)
          THEN /\ Done(c, "ok")
               /\ UNCHANGED <<lock, port, is_ready, world>>
          ELSE SpawnProcess(c)
    /\ UNCHANGED <<config, child, api_prefix, shutting_down, ncalls>>

\* The phase that follows the spawn in ensure_running (lines 139-144).
AfterStore == IF desired_port = 0 THEN "wp" ELSE "dp0"

\* A faulty launch: the process is killed when its handle is dropped.
KillOnDropSet == TRUE

\* Line 286: kill_on_drop(false); the handle that `*guard = Some(child)` (line 135)
\* replaces is dropped without a signal.
KillOnDrop == FALSE

\* A faulty release: the guard lives until ensure_running returns.
LockKept(c) == c

\* Line 136: drop(guard), the holder of the lock once the handle is stored.
LockAfterStore(c) == 0

\* Lines 326-337 and 135-136: the liveness window.  The loop ends on the first
\* signal or on the 750ms timeout, and the handle is stored and the lock released;
\* it fails when the child is seen exited while no line has been seen.
SP_Wait(c) ==
    /\ pc(c) = "sp_wait"
    /\ \/ /\ child' = call[c].sp_child
          /\ sigs' = IF KillOnDrop /\ child # 0
                     THEN [sigs EXCEPT ![child] = "kill"]
                     ELSE sigs
          /\ lock' = LockAfterStore(c)
          /\ Frame(c, [call[c] EXCEPT !.pc = AfterStore, !.gs_child = 0, !.sig = FALSE])
       \/ /\ ~call[c].sig
          /\ proc[call[c].sp_child] # "alive"
          /\ Done(c, "early_exit")
          /\ lock' = 0
          /\ UNCHANGED <<child, sigs>>
    /\ UNCHANGED <<config, port, api_prefix, is_ready, shutting_down, nspawn, proc, cwd,
                   ncalls>>

\* wait_for_port_detection (lines 384-396): a check of the loop finds the port.
WP_Found(c) ==
    /\ pc(c) = "wp"
    /\ port # NoPort
    /\ Frame(c, [call[c] EXCEPT !.pc = "dp0", !.ann = FALSE])
    /\ UNCHANGED <<config, shared, world, ncalls>>

\* The 15s deadline passes with no check of the loop having found a port.
WP_Timeout(c) ==
    /\ pc(c) = "wp"
    /\ port = NoPort
    /\ Done(c, "port_timeout")
    /\ UNCHANGED <<config, shared, world, ncalls>>

\* ---------------------------------------------------- detect_api_prefix
\* What GET {base}/config can return: "json" (success status, body starting with
\* { or [ once trimmed), "html" (success status, another body), "fail" (an error or
\* a non-success status).  Only a live child answers.
ProbeOutcomes(p) == IF Responders(p) # {} THEN {"json", "html", "fail"} ELSE {"fail"}

\* A response to a GET: the request failed ("error"), or it was answered with a
\* success status or another one ("failure"), and a body.
Response(s, b) == [status |-> s, body |-> b]

\* Bodies: a JSON object or array, bare or after white space, a page, nothing.
Bodies == {<<"{">>, <<"[">>, <<" ", "{">>, <<"\n", "[">>, <<"<">>, <<>>}

Responses ==
    {Response("error", <<>>)} \cup {Response(s, b) : s \in {"success", "failure"}, b \in Bodies}

\* Lines 203-206: how detect_api_prefix reads a response.
Classify(resp) ==
    IF resp.status # "success" THEN "fail"
    ELSE LET text == Trim(resp.body) IN
         IF text # <<>> /\ (Head(text) = "{" \/ Head(text) = "[") THEN "json" ELSE "html"

\* The outcome of the probe of candidate i on port p.  Only a live child answers;
\* it answers as `input` scripts it (SpecDetect), or freely.
Probe(p, i) ==
    IF input = <<>> THEN ProbeOutcomes(p)
    ELSE IF Responders(p) # {} THEN {Classify(input[i])} ELSE {"fail"}

\* A faulty acceptance test: any success status is accepted.
AcceptedAnySuccess(outcome) == outcome \in {"json", "html"}

\* Lines 205-208: the candidate is accepted.
Accepted(outcome) == outcome = "json"

\* A faulty fallback: /api when no candidate is accepted.
FallbackPrefixApi == API

\* Lines 219-220: the prefix stored when no candidate is accepted.
FallbackPrefix == EMPTY

\* Lines 399-401: wait_for_ready reads the port once, and fails without one.
WR_Start(c) ==
    IF port = NoPort
    THEN Done(c, "no_port")
    ELSE Frame(c, [call[c] EXCEPT !.pc = "wr_cycle", !.lport = port])

\* Lines 190-217, first candidate.  Without a port the function fails, ensure_running
\* drops the error (line 144) and wait_for_ready fails.
DP_First(c) ==
    /\ pc(c) = "dp0"
    /\ IF port = NoPort
       THEN /\ WR_Start(c)
            /\ UNCHANGED api_prefix
       ELSE \E o \in Probe(port, 1) :
               IF Accepted(o)
               THEN /\ api_prefix' = normalize_api_prefix(candidates[1])
                    /\ WR_Start(c)
               ELSE /\ Frame(c, [call[c] EXCEPT !.pc = "dp1", !.lport = port])
                    /\ UNCHANGED api_prefix
    /\ UNCHANGED <<config, child, lock, port, is_ready, shutting_down, world, ncalls>>

\* Lines 196-221, second candidate and the fallback to the empty prefix; then the
\* start of wait_for_ready.
DP_Second(c) ==
    /\ pc(c) = "dp1"
    /\ \E o \in Probe(call[c].lport, 2) :
          api_prefix' = IF Accepted(o) THEN normalize_api_prefix(candidates[2])
                        ELSE FallbackPrefix
    /\ WR_Start(c)
    /\ UNCHANGED <<config, child, lock, port, is_ready, shutting_down, world, ncalls>>

\* ------------------------------------------------------- wait_for_ready
\* What one GET of check_endpoints can return: "ok" (success status) or "fail".
CheckOutcomes(p) == IF Responders(p) # {} THEN {"ok", "fail"} ELSE {"fail"}

\* A faulty check: the response of /agent is not looked at.
check_endpoints_config_only(config_resp, agent_resp) ==
    IF config_resp # "ok" THEN "config_failed" ELSE "ok"

\* Lines 440-450: both responses must be a success.
check_endpoints(config_resp, agent_resp) ==
    IF config_resp # "ok" THEN "config_failed"
    ELSE IF agent_resp # "ok" THEN "agent_failed"
    ELSE "ok"

\* A faulty record of the error: the first one is kept.
RecordErrorFirst(old, e) == IF old = "none" THEN e ELSE old

\* Line 415: last_error = Some(e.to_string()).
RecordError(old, e) == e

\* Lines 406-418: a poll cycle fails, its error is kept in last_error, and the loop
\* sleeps 400ms.  (A step of SpecDetect only: it changes nothing but last_error.)
WR_Failed(c) ==
    /\ pc(c) = "wr_cycle"
    /\ \E co \in CheckOutcomes(call[c].lport), ao \in CheckOutcomes(call[c].lport) :
          /\ check_endpoints(co, ao) # "ok"
          /\ Frame(c, [call[c] EXCEPT !.cycle = <<co, ao>>,
                          !.last_error = RecordError(@, check_endpoints(co, ao))])
    /\ UNCHANGED <<config, shared, world, ncalls>>

\* Lines 406-413: a poll cycle succeeds and wait_for_ready returns (last_error dies).
WR_Cycle(c) ==
    /\ pc(c) = "wr_cycle"
    /\ \E co \in CheckOutcomes(call[c].lport), ao \in CheckOutcomes(call[c].lport) :
          /\ check_endpoints(co, ao) = "ok"
          /\ \E r \in Responders(call[c].lport) :
                Frame(c, [call[c] EXCEPT !.pc = "er_ready",
                              !.served = IF co = "ok" /\ ao = "ok" THEN r ELSE 0,
                              !.cycle = <<co, ao>>, !.last_error = "none"])
    /\ UNCHANGED <<config, shared, world, ncalls>>

\* A faulty cycle: the port is read again.
CycleBaseCurrent(c) == <<port, api_prefix>>

\* Lines 407, 410 and 430: the base URL of a cycle, from the local port of
\* wait_for_ready and the prefix read when the cycle begins.
CycleBase(c) == <<call[c].lport, api_prefix>>

\* Lines 407-410 and 430-438: a poll cycle begins; the prefix is read and the two
\* requests are sent.  (With WR_Answer, the cycle in two steps: SpecPoll.)
WR_Send(c) ==
    /\ pc(c) = "wr_cycle"
    /\ Frame(c, [call[c] EXCEPT !.pc = "wr_req", !.probed = CycleBase(c)])
    /\ UNCHANGED <<config, shared, world, ncalls>>

\* Lines 435-450 and 410-418: the two requests of the cycle are answered; the cycle
\* succeeds and wait_for_ready returns, or it fails and the loop sleeps 400ms.
WR_Answer(c) ==
    /\ pc(c) = "wr_req"
    /\ \E co \in CheckOutcomes(call[c].probed[1]), ao \in CheckOutcomes(call[c].probed[1]) :
          IF check_endpoints(co, ao) = "ok"
          THEN \E r \in Responders(call[c].probed[1]) :
                  Frame(c, [call[c] EXCEPT !.pc = "er_ready", !.served = r,
                                !.cycle = <<co, ao>>, !.last_error = "none"])
          ELSE Frame(c, [call[c] EXCEPT !.pc = "wr_cycle", !.cycle = <<co, ao>>,
                            !.last_error = RecordError(@, check_endpoints(co, ao))])
    /\ UNCHANGED <<config, shared, world, ncalls>>

\* Lines 406 and 422-426: the 20s deadline passes after failed cycles.
WR_Timeout(c) ==
    /\ pc(c) = "wr_cycle"
    /\ Frame(c, [Idle EXCEPT !.pc = "done", !.op = call[c].op, !.result = "not_ready",
                    !.detail = IF call[c].last_error = "none" THEN "no error details"
                               ELSE call[c].last_error])
    /\ UNCHANGED <<config, shared, world, ncalls>>

\* Line 149: the value ensure_running stores once wait_for_ready has succeeded.
ReadyValue == TRUE

\* Lines 149-153.
ER_Ready(c) ==
    /\ pc(c) = "er_ready"
    /\ is_ready' = ReadyValue
    /\ Done(c, "ok")
    /\ UNCHANGED <<config, child, lock, port, api_prefix, shutting_down, world, ncalls>>

\* -------------------------------------------------------- graceful_stop
\* graceful_stop returns r.  shutdown returns it (line 177); restart fails with it
\* (line 160) or goes on to its 250ms sleep.
GsReturn(c, r) ==
    IF op(c) = "restart" /\ r = "ok"
    THEN Goto(c, "rs_sleep")
    ELSE Done(c, r)

\* Line 459: `child.try_wait()?` makes graceful_stop fail when the query fails.
QueryFailed(tw) == tw = "err"

\* A faulty exit check: the early return of graceful_stop is never taken.
ObservedExitedNever(tw) == FALSE

\* Lines 459-462: the process is observed as already exited (Ok(Some(_))).
ObservedExited(tw) == tw = "exited"

\* A faulty first stage: the forceful kill on every platform.
FirstSignalKill == "kill"

\* Lines 465-479: the first stage is SIGTERM on unix, child.kill() on windows.
FirstSignal == IF platform = "unix" THEN "term" ELSE "kill"

\* Outcomes of Child::start_kill: the signal is sent, or an error (dropped by `let _`).
StartKill == {"sent", "err"}

\* child.wait() can complete: the child has exited, or wait() fails.
WaitDone(q) == IF proc[q] = "alive" THEN {"err"} ELSE {"exited", "err"}

\* A faulty take: the handle is read and left in place.
TakeKeeps(h) == h

\* Line 455: guard.take() leaves None in the handle.
TakeLeaves(h) == 0

\* Lines 454-479: the lock, guard.take(), try_wait()? and the first signal.
GS_Begin(c) ==
    /\ pc(c) = "gs"
    /\ lock = 0
    /\ IF child = 0
       THEN /\ GsReturn(c, "ok")
            /\ UNCHANGED <<child, lock, sigs>>
       ELSE /\ child' = TakeLeaves(child)
            /\ \E tw \in TryWait(child) :
                  IF QueryFailed(tw)
                  THEN /\ Done(c, "trywait")
                       /\ UNCHANGED <<lock, sigs>>
                  ELSE IF ObservedExited(tw)
                  THEN /\ IF op(c) = "restart"
                          THEN Frame(c, [call[c] EXCEPT !.pc = "rs_sleep", !.gs_child = child])
                          ELSE Done(c, "ok")
                       /\ UNCHANGED <<lock, sigs>>
                  ELSE /\ lock' = c
                       /\ IF FirstSignal = "term"
                          THEN /\ sigs' = [sigs EXCEPT ![child] = "term"]
                               /\ Frame(c, [call[c] EXCEPT !.pc = "gs_wait1", !.gs_child = child])
                          ELSE \E k \in StartKill :
                                  IF k = "sent"
                                  THEN /\ sigs' = [sigs EXCEPT ![child] = "kill"]
                                       /\ Frame(c, [call[c] EXCEPT !.pc = "gs_wkill",
                                                                   !.gs_child = child])
                                  ELSE /\ Frame(c, [call[c] EXCEPT !.pc = "gs_wait1",
                                                                   !.gs_child = child])
                                       /\ UNCHANGED sigs
    /\ UNCHANGED <<config, port, api_prefix, is_ready, shutting_down, nspawn, proc, cwd,
                   ncalls>>

\* Line 478 (windows): child.kill().await is start_kill() followed by wait().
GS_WinKill(c) ==
    /\ pc(c) = "gs_wkill"
    /\ \E w \in WaitDone(call[c].gs_child) : Goto(c, "gs_wait1")
    /\ UNCHANGED <<config, shared, world, ncalls>>

\* Lines 482-493: timeout(3s, child.wait()).  Any completion of wait() returns
\* success; on the timeout the child is still running and is killed.
GS_Wait1(c) ==
    /\ pc(c) = "gs_wait1"
    /\ \/ /\ \E w \in WaitDone(call[c].gs_child) : GsReturn(c, "ok")
          /\ lock' = 0
          /\ UNCHANGED sigs
       \/ /\ proc[call[c].gs_child] = "alive"
          /\ UNCHANGED lock
          /\ \E k \in StartKill :
                IF k = "sent"
                THEN /\ sigs' = [sigs EXCEPT ![call[c].gs_child] = "kill"]
                     /\ Goto(c, "gs_kill")
                ELSE /\ Goto(c, "gs_wait2")
                     /\ UNCHANGED sigs
    /\ UNCHANGED <<config, child, port, api_prefix, is_ready, shutting_down, nspawn, proc,
                   cwd, ncalls>>

\* Line 493: the wait() inside child.kill().await, after SIGKILL was sent.
GS_Kill(c) ==
    /\ pc(c) = "gs_kill"
    /\ \E w \in WaitDone(call[c].gs_child) : Goto(c, "gs_wait2")
    /\ UNCHANGED <<config, shared, world, ncalls>>

\* Lines 495-504: timeout(2s, child.wait()); both arms fall through to Ok(()).
GS_Wait2(c) ==
    /\ pc(c) = "gs_wait2"
    /\ GsReturn(c, "ok")
    /\ lock' = 0
    /\ UNCHANGED <<config, child, port, api_prefix, is_ready, shutting_down, world, ncalls>>

\* --------------------------------------------------------------- restart
\* Lines 166-168: the port is cleared only when it is dynamic.
ResetPort == IF desired_port = 0 THEN NoPort ELSE port

\* Lines 163-171: after the 250ms sleep, the reset of port and prefix; then
\* ensure_running: its binary check (line 122) and the await of the lock.
RS_Reset(c) ==
    /\ pc(c) = "rs_sleep"
    /\ port' = ResetPort
    /\ api_prefix' = EMPTY
    /\ IF Available THEN Goto(c, "er_lock") ELSE Done(c, "unavailable")
    /\ UNCHANGED <<config, child, lock, is_ready, shutting_down, world, ncalls>>

\* ------------------------------------------------------ is_child_running
\* A faulty detection: is_ready is left as it is.
ReapedReadyKept == is_ready

\* Line 247: the value stored in is_ready when the exit is observed.
ReapedReady == FALSE

\* Lines 240-253.
ICR(c) ==
    /\ pc(c) = "icr"
    /\ lock = 0
    /\ IF child = 0
       THEN Done(c, "false") /\ UNCHANGED <<child, is_ready>>
       ELSE \E tw \in TryWait(child) :
               CASE tw = "err" -> Done(c, "trywait") /\ UNCHANGED <<child, is_ready>>
                 [] tw = "running" -> Done(c, "true") /\ UNCHANGED <<child, is_ready>>
                 [] tw = "exited" -> /\ child' = 0
                                     /\ is_ready' = ReapedReady
                                     /\ Done(c, "false")
    /\ UNCHANGED <<config, lock, port, api_prefix, shutting_down, world, ncalls>>

\* ------------------------------------------------------- the environment
\* A child exits (by itself, or because of a signal).
ProcExit(q) ==
    /\ proc[q] = "alive"
    /\ proc' = [proc EXCEPT ![q] = "exited"]
    /\ UNCHANGED <<config, shared, nspawn, sigs, cwd, ncalls, call>>

\* A faulty write of the port: the first port found is kept.
IngestPortFirst(line) ==
    IF port = NoPort /\ line.match /\ ParseU16(line.digits) # NoPort
    THEN ParseU16(line.digits)
    ELSE port

\* A faulty write of the prefix: the root path is stored like any other path.
IngestPrefixAnyPath(line) ==
    IF line.match /\ line.path # NoPath THEN line.path ELSE api_prefix

\* Lines 368-373: the port a line leaves in self.port.
IngestPort(line) ==
    IF line.match /\ ParseU16(line.digits) # NoPort THEN ParseU16(line.digits) ELSE port

\* Lines 375-380: the prefix a line leaves in self.api_prefix.
IngestPrefix(line) ==
    IF line.match /\ line.path # NoPath /\ line.path # EMPTY /\ line.path # ROOT
    THEN line.path
    ELSE api_prefix

\* A line with a parsable port.
PortBearing(line) == line.match /\ ParseU16(line.digits) # NoPort

\* Lines 366-382: the writes of ingest_output_line, and what it leaves alone.
ingest_output_line(line) ==
    /\ port' = IngestPort(line)
    /\ api_prefix' = IngestPrefix(line)
    /\ UNCHANGED <<child, lock, is_ready, shutting_down>>

\* Lines 354-362 and 366-382: a reader of child q reads a line (buffered lines are
\* read after the exit too), raises the first signal of the spawn_process that waits
\* for it, and ingests the line.
Ingest(q, line) ==
    /\ proc[q] # "unborn"
    /\ call' = [c \in Callers |->
                  IF call[c].sp_child = q /\ pc(c) = "sp_wait"
                  THEN [call[c] EXCEPT !.sig = TRUE, !.ann = @ \/ PortBearing(line)]
                  ELSE IF call[c].sp_child = q /\ pc(c) = "wp"
                  THEN [call[c] EXCEPT !.ann = @ \/ PortBearing(line)]
                  ELSE call[c]]
    /\ ingest_output_line(line)
    /\ UNCHANGED <<config, world, ncalls>>

\* The lines of SpecIngest: no URL, or a URL with one of three ports (one not a u16)
\* and no path, the root path or one of two prefixes.
V2 == <<"/", "v", "2">>
IngestLines ==
    {Line(FALSE, 0, NoPath)} \cup
    {Line(TRUE, d, p) : d \in {BasePort + 1, BasePort + 2, BigPort}, p \in {NoPath, ROOT, API, V2}}

\* Lines 354-362: a reader reads one more line and ingests it; `input` keeps the
\* lines read so far, in the order they were ingested.
ReadLine(line) ==
    /\ Len(input) < MaxLines
    /\ input' = Append(input, line)
    /\ ingest_output_line(line)
    /\ UNCHANGED <<binary, desired_port, platform, working_dir, world, ncalls, call>>

\* ------------------------------------------------- resolve_opencode_binary
\* Option::None, an unset variable, std::env::var(..) = Err.
Unset == <<"-">>

\* Paths are tuples of components.  The value of OPENCODE_BINARY, the binary the
\* login shell exports, the directories of its PATH, the home directory.
OverridePath == <<"/o">>
ShellBinary == <<"/s">>
Dirs == {"/d1", "/d2"}
Home == <<"/h">>

\* format!("{}/opencode", dir) (line 540) and home.join(".opencode/bin/opencode")
\* (line 549).
InDir(dir) == <<dir, "opencode">>
HomeFallback(home) == home \o <<".opencode", "bin", "opencode">>

\* The files that may exist.
Files == {OverridePath, ShellBinary, HomeFallback(Home)} \cup {InDir(d) : d \in Dirs}

\* The login-shell PATH: unset, or one or two directories.
ShellPaths == {Unset} \cup {<<d>> : d \in Dirs} \cup {<<d, e>> : d \in Dirs, e \in Dirs}

\* What resolve_opencode_binary reads: the environment of the process, the
\* environment of the login shell (detect_shell_env) and the file system.
ResolveInputs ==
    [disable : BOOLEAN,
     override : {Unset, <<>>, OverridePath},
     shell_binary : {Unset, ShellBinary},
     shell_path : ShellPaths,
     home : {Unset, Home},
     fs : SUBSET Files]

\* Lines 537-545: the first directory of the login PATH that holds opencode.
RECURSIVE FindInPath(_, _)
FindInPath(dirs, fs) ==
    IF dirs = <<>> THEN Unset
    ELSE IF InDir(Head(dirs)) \in fs THEN InDir(Head(dirs))
    ELSE FindInPath(Tail(dirs), fs)

\* A faulty resolution: the disable flag is not looked at.
resolve_ignoring_disable(i) ==
    IF i.override # Unset /\ i.override # <<>> /\ i.override \in i.fs THEN i.override
    ELSE IF i.shell_binary # Unset /\ i.shell_binary \in i.fs THEN i.shell_binary
    ELSE IF i.shell_path # Unset /\ FindInPath(i.shell_path, i.fs) # Unset
    THEN FindInPath(i.shell_path, i.fs)
    ELSE IF i.home # Unset /\ HomeFallback(i.home) \in i.fs THEN HomeFallback(i.home)
    ELSE Unset

\* Lines 516-557.
resolve_opencode_binary(i) ==
    IF i.disable THEN Unset
    ELSE IF i.override # Unset /\ i.override # <<>> /\ i.override \in i.fs THEN i.override
    ELSE IF i.shell_binary # Unset /\ i.shell_binary \in i.fs THEN i.shell_binary
    ELSE IF i.shell_path # Unset /\ FindInPath(i.shell_path, i.fs) # Unset
    THEN FindInPath(i.shell_path, i.fs)
    ELSE IF i.home # Unset /\ HomeFallback(i.home) \in i.fs THEN HomeFallback(i.home)
    ELSE Unset

\* Lines 509-514.
check_cli_exists(i) ==
    IF i.disable THEN FALSE ELSE resolve_opencode_binary(i) # Unset

\* Lines 66 and 102: the constructor resolves the binary in the environment `input`.
Resolve(c) ==
    /\ pc(c) = "idle"
    /\ binary' = (resolve_opencode_binary(input) # Unset)
    /\ Frame(c, [Idle EXCEPT !.pc = "done", !.op = "resolve_opencode_binary",
                             !.result = resolve_opencode_binary(input)])
    /\ UNCHANGED <<desired_port, platform, input, working_dir, shared, world, ncalls>>

\* check_cli_exists() is called in that environment.
CheckCli(c) ==
    /\ pc(c) = "idle"
    /\ Frame(c, [Idle EXCEPT !.pc = "done", !.op = "check_cli_exists",
                             !.result = check_cli_exists(input)])
    /\ UNCHANGED <<config, shared, world, ncalls>>

\* ----------------------------------------------------------- rewrite_path
\* The characters of the inbound paths, and the paths of at most n characters.
PathChars == {"/", "a", "p", "i", "x"}
PathsUpTo(n) == UNION {[1..k -> PathChars] : k \in 0..n}

\* str::strip_prefix: the rest of s after the prefix, Unset when s does not start
\* with it.
StripPrefix(s, prefix) ==
    IF Len(s) >= Len(prefix) /\ SubSeq(s, 1, Len(prefix)) = prefix
    THEN SubSeq(s, Len(prefix) + 1, Len(s))
    ELSE Unset

\* A faulty rewrite: the discovered prefix is stripped.
rewrite_path_discovered(incoming_path) ==
    LET rest == StripPrefix(incoming_path, api_prefix) IN
    IF rest = Unset THEN incoming_path
    ELSE IF rest = <<>> THEN ROOT ELSE rest

\* Lines 255-268.
rewrite_path(incoming_path) ==
    LET rest == StripPrefix(incoming_path, API) IN
    IF rest = Unset THEN incoming_path
    ELSE IF rest = <<>> THEN ROOT ELSE rest

\* rewrite_path is called with the path `input`.
Rewrite(c) ==
    /\ pc(c) = "idle"
    /\ Frame(c, [Idle EXCEPT !.pc = "done", !.op = "rewrite_path",
                             !.result = rewrite_path(input)])
    /\ UNCHANGED <<config, shared, world, ncalls>>

\* ------------------------------------------------------ working directory
\* Lines 180-183: the directory is replaced by the argument, which the frame keeps
\* in `detail`, and Ok(()) is returned.
set_working_directory(c, new_dir) ==
    /\ pc(c) = "idle"
    /\ working_dir' = new_dir
    /\ Frame(c, [Idle EXCEPT !.pc = "done", !.op = "set_working_directory",
                             !.result = "ok", !.detail = new_dir])
    /\ UNCHANGED <<binary, desired_port, platform, input, shared, world, ncalls>>

\* Lines 185-187.
get_working_directory(c) ==
    /\ pc(c) = "idle"
    /\ Frame(c, [Idle EXCEPT !.pc = "done", !.op = "get_working_directory",
                             !.result = working_dir])
    /\ UNCHANGED <<config, shared, world, ncalls>>

\* ------------------------------------------------------------ status reads
StatusOps == {"current_port", "api_prefix", "is_ready", "is_shutting_down"}

\* A lock is held between two steps: the mutex of self.child by the call that
\* acquired it; the reader/writer locks of port and api_prefix never, their guards
\* live within one statement (lines 135, 159, 216, 305, 372, 378).
Held(l) == IF l = "child" THEN lock # 0 ELSE FALSE

\* Faulty status reads: they go through the lock of the handle.
StatusLocksHandle(o) == {"child"}

\* Lines 224-238: the locks a status read acquires.
StatusLocks(o) ==
    CASE o = "current_port" -> {"port"}
      [] o = "api_prefix" -> {"api_prefix"}
      [] OTHER -> {}

\* Lines 224-238: the value a status read returns.
StatusValue(o) ==
    CASE o = "current_port" -> port
      [] o = "api_prefix" -> api_prefix
      [] o = "is_ready" -> is_ready
      [] o = "is_shutting_down" -> shutting_down

\* Lines 224-238: a status read runs once its locks are free.
StatusRead(c, o) ==
    /\ pc(c) = "idle"
    /\ \A l \in StatusLocks(o) : ~Held(l)
    /\ Frame(c, [Idle EXCEPT !.pc = "done", !.op = o, !.result = StatusValue(o)])
    /\ UNCHANGED <<config, shared, world, ncalls>>

\* ------------------------------------------------------------ the system
\* The steps of every supervisor whose callers are the set C.
StepsOf(C) ==
    \/ \E c \in C, o \in Ops : Call(c, o)
    \/ \E c \in C : Return(c)
    \/ \E c \in C : ER_Begin(c)
    \/ \E c \in C : SP_Wait(c)
    \/ \E c \in C : DP_First(c)
    \/ \E c \in C : DP_Second(c)
    \/ \E c \in C : WR_Cycle(c)
    \/ \E c \in C : WR_Timeout(c)
    \/ \E c \in C : ER_Ready(c)
    \/ \E c \in C : GS_Begin(c)
    \/ \E c \in C : GS_Wait1(c)
    \/ \E c \in C : GS_Kill(c)
    \/ \E c \in C : GS_Wait2(c)
    \/ \E c \in C : RS_Reset(c)
    \/ \E c \in C : ICR(c)
    \/ \E q \in Pids : ProcExit(q)
    \/ \E q \in Pids : \E line \in Lines(q) : Ingest(q, line)

Steps == StepsOf(Callers)

\* With a dynamic port, ensure_running waits for the port (lines 139-141); on
\* windows the first stage of graceful_stop is child.kill() (line 478).
Next ==
    \/ Steps
    \/ \E c \in Callers : WP_Found(c)
    \/ \E c \in Callers : WP_Timeout(c)
    \/ \E c \in Callers : GS_WinKill(c)

\* With a fixed port on unix, neither wait_for_port_detection nor the first-stage
\* child.kill() is ever called.
NextFixed == Steps

Spec == Init /\ [][Next]_vars

SpecFixed == InitFixed /\ [][NextFixed]_vars

\* The Output Ingestor alone: the readers ingest up to MaxLines lines, in any order,
\* into a supervisor that no operation touches.
InitIngest == Start({DynamicPort}, {"unix"}) /\ input = <<>>

NextIngest == \E line \in IngestLines : ReadLine(line)

SpecIngest == InitIngest /\ [][NextIngest]_vars

\* The lines of SpecParse: no URL, or a URL whose port digits are within the u16
\* range, at its end, just beyond it or far beyond it, with no path, the root path
\* or a prefix.
ParseLines ==
    {Line(FALSE, 0, NoPath)} \cup
    {Line(TRUE, d, p) : d \in {BasePort + 1, U16Max, U16Max + 1, BigPort},
                        p \in {NoPath, ROOT, API}}

NextParse == \E line \in ParseLines : ReadLine(line)

\* The Output Ingestor on lines around the end of the u16 range.
SpecParse == InitIngest /\ [][NextParse]_vars

\* Startup against a scripted server: one caller calls ensure_running() on a
\* supervisor with a fixed port; `input` holds the responses of the server to the
\* probes of the two candidates, and every failed poll cycle is a step (in the other
\* specifications a failed cycle, which changes only last_error, is left out).
InitDetect == Start({FixedPort}, {"unix"}) /\ input \in Responses \X Responses

NextDetect ==
    \/ Call(1, "ensure_running")
    \/ Return(1)
    \/ ER_Begin(1)
    \/ SP_Wait(1)
    \/ DP_First(1)
    \/ DP_Second(1)
    \/ WR_Cycle(1)
    \/ WR_Failed(1)
    \/ WR_Timeout(1)
    \/ ER_Ready(1)
    \/ \E q \in Pids : ProcExit(q)

SpecDetect == InitDetect /\ [][NextDetect]_vars

\* A shutdown has returned to a caller that has not taken another step since.
ShutdownReturned == \E d \in Callers : op(d) = "shutdown" /\ pc(d) = "done"

\* A call is started, or its result taken, while no shutdown() has returned.
CallBefore(c, o) == ~ShutdownReturned /\ Call(c, o)
ReturnBefore(c) == ~ShutdownReturned /\ Return(c)

\* The supervisor of Spec up to the return of a shutdown(): calls are started only
\* before a shutdown() has returned, and the calls in flight then run to their end.
NextShutdown ==
    \/ \E c \in Callers, o \in Ops : CallBefore(c, o)
    \/ \E c \in Callers : ReturnBefore(c)
    \/ \E c \in Callers : ER_Begin(c)
    \/ \E c \in Callers : SP_Wait(c)
    \/ \E c \in Callers : WP_Found(c)
    \/ \E c \in Callers : WP_Timeout(c)
    \/ \E c \in Callers : DP_First(c)
    \/ \E c \in Callers : DP_Second(c)
    \/ \E c \in Callers : WR_Cycle(c)
    \/ \E c \in Callers : WR_Timeout(c)
    \/ \E c \in Callers : ER_Ready(c)
    \/ \E c \in Callers : GS_Begin(c)
    \/ \E c \in Callers : GS_WinKill(c)
    \/ \E c \in Callers : GS_Wait1(c)
    \/ \E c \in Callers : GS_Kill(c)
    \/ \E c \in Callers : GS_Wait2(c)
    \/ \E c \in Callers : RS_Reset(c)
    \/ \E c \in Callers : ICR(c)
    \/ \E q \in Pids : ProcExit(q)
    \/ \E q \in Pids : \E line \in Lines(q) : Ingest(q, line)

SpecShutdown == Init /\ [][NextShutdown]_vars

\* Startup with the poll cycles in two steps: one caller calls ensure_running() on a
\* supervisor with a fixed port, whose child prints what it likes while the
\* requests of a cycle are in flight.
NextPoll ==
    \/ Call(1, "ensure_running")
    \/ Return(1)
    \/ ER_Begin(1)
    \/ SP_Wait(1)
    \/ DP_First(1)
    \/ DP_Second(1)
    \/ WR_Send(1)
    \/ WR_Answer(1)
    \/ WR_Timeout(1)
    \/ ER_Ready(1)
    \/ \E q \in Pids : ProcExit(q)
    \/ \E q \in Pids : \E line \in Lines(q) : Ingest(q, line)

SpecPoll == InitFixed /\ [][NextPoll]_vars

\* Binary resolution alone: the environment and the file system are drawn in `input`,
\* and the binary is resolved (or its presence polled) in them.
InitResolve == Start({DynamicPort}, {"unix"}) /\ binary = FALSE /\ input \in ResolveInputs

NextResolve == Resolve(1) \/ CheckCli(1) \/ Return(1)

SpecResolve == InitResolve /\ [][NextResolve]_vars

\* Path rewriting alone: an inbound path of at most MaxPath characters is drawn in
\* `input`, for a supervisor that has discovered any port and prefix.
InitRewrite ==
    /\ input \in PathsUpTo(MaxPath)
    /\ binary = TRUE
    /\ desired_port = DynamicPort
    /\ platform = "unix"
    /\ child = 0
    /\ lock = 0
    /\ port \in {NoPort, BasePort + 1}
    /\ api_prefix \in {EMPTY, API, V2}
    /\ is_ready = FALSE
    /\ shutting_down = FALSE
    /\ nspawn = 0
    /\ ncalls = 0
    /\ proc = [q \in Pids |-> "unborn"]
    /\ sigs = [q \in Pids |-> "none"]
    /\ call = [c \in Callers |-> Idle]
    /\ working_dir = InitialDir
    /\ cwd = [q \in Pids |-> NoDir]

NextRewrite == Rewrite(1) \/ Return(1)

SpecRewrite == InitRewrite /\ [][NextRewrite]_vars

\* The characters of the prefixes given to normalize_api_prefix, and the prefixes of
\* at most n characters.
PrefixChars == {" ", "/", "a", "b"}
PrefixesUpTo(n) == UNION {[1..k -> PrefixChars] : k \in 0..n}

\* Lines 46-57: normalize_api_prefix is applied to the prefix `input`.
Normalize(c) ==
    /\ pc(c) = "idle"
    /\ Frame(c, [Idle EXCEPT !.pc = "np_once", !.op = "normalize_api_prefix",
                             !.result = normalize_api_prefix(input)])
    /\ UNCHANGED <<config, shared, world, ncalls>>

\* Lines 46-57: normalize_api_prefix is applied to the prefix it returned; the frame
\* keeps the first result in `result` and the second in `detail`.
NormalizeAgain(c) ==
    /\ pc(c) = "np_once"
    /\ Frame(c, [call[c] EXCEPT !.pc = "done",
                                !.detail = normalize_api_prefix(call[c].result)])
    /\ UNCHANGED <<config, shared, world, ncalls>>

\* Prefix normalisation alone: a prefix of at most MaxPath characters is drawn in
\* `input` and normalised twice.
InitNormalize ==
    Start({DynamicPort}, {"unix"}) /\ binary = TRUE /\ input \in PrefixesUpTo(MaxPath)

NextNormalize == Normalize(1) \/ NormalizeAgain(1) \/ Return(1)

SpecNormalize == InitNormalize /\ [][NextNormalize]_vars

\* The same supervisor used by one caller: its calls follow one another.
NextFixedSeq == StepsOf({1})

SpecFixedSeq == InitFixed /\ [][NextFixedSeq]_vars

\* The supervisor with a fixed port used by one caller, while another thread sets
\* and reads the working directory at any time.
NextDir ==
    \/ StepsOf({1})
    \/ \E d \in WorkDirs : set_working_directory(2, d)
    \/ get_working_directory(2)
    \/ Return(2)

SpecDir == InitFixed /\ [][NextDir]_vars

\* The supervisor with a dynamic port used by one caller, while another thread reads
\* its status at any time.
InitStatus == Start({DynamicPort}, {"unix"}) /\ input = <<>>

NextStatus ==
    \/ StepsOf({1})
    \/ WP_Found(1)
    \/ WP_Timeout(1)
    \/ \E o \in StatusOps : StatusRead(2, o)
    \/ Return(2)

SpecStatus == InitStatus /\ [][NextStatus]_vars

\* The supervisor with a dynamic port used by one caller, under fair scheduling
\* and advancing time: a call that can take its next step takes it (the lock is
\* free, a sleep or a deadline elapses, a request answers or times out after 2s).
\* The wait() inside child.kill().await (line 493) has no deadline: it completes
\* when the child has exited, which nothing forces the child to do.
NextFair ==
    \/ StepsOf({1})
    \/ WP_Found(1)
    \/ WP_Timeout(1)

\* The wait() of line 493 completes because the child has exited.
GS_KillExited(c) ==
    /\ pc(c) = "gs_kill"
    /\ proc[call[c].gs_child] # "alive"
    /\ GS_Kill(c)

Fairness ==
    /\ WF_vars(ER_Begin(1))
    /\ WF_vars(SP_Wait(1))
    /\ WF_vars(WP_Found(1))
    /\ WF_vars(WP_Timeout(1))
    /\ WF_vars(DP_First(1))
    /\ WF_vars(DP_Second(1))
    /\ WF_vars(WR_Timeout(1))
    /\ WF_vars(ER_Ready(1))
    /\ WF_vars(GS_Begin(1))
    /\ WF_vars(GS_Wait1(1))
    /\ WF_vars(GS_KillExited(1))
    /\ WF_vars(GS_Wait2(1))
    /\ WF_vars(RS_Reset(1))
    /\ WF_vars(ICR(1))

SpecFair == InitStatus /\ [][NextFair]_vars /\ Fairness

\* The same supervisor and caller, with no assumption on scheduling.
SpecSeq == InitStatus /\ [][NextFair]_vars

\* ------------------------------------------------------------ properties
\* The children that are spawned and have not exited.
Alive == {q \in Pids : proc[q] = "alive"}

\* Caller c is inside a call (it has not returned).
InFlight(c) == pc(c) \notin {"idle", "done"}

\* The step spawns a child for caller c.
Spawns(c) == pc(c) = "er_lock" /\ call'[c].pc = "sp_wait"

\* C1: in every reachable state at most one spawned child is alive.
C1_AtMostOneAlive == Cardinality(Alive) <= 1

\* C2: concurrent ensure_running() calls do not race two spawns: no ensure_running()
\* call spawns while the child spawned by another ensure_running() call that is still
\* in flight (in port discovery or readiness polling) is alive.
C2_NoSecondSpawn ==
    [][\A c \in Callers :
          (op(c) = "ensure_running" /\ Spawns(c)) =>
             ~ \E d \in Callers \ {c} :
                  /\ op(d) = "ensure_running"
                  /\ InFlight(d)
                  /\ call[d].sp_child # 0
                  /\ proc[call[d].sp_child] = "alive"]_vars

\* C3: is_ready becomes true only by a call whose successful poll cycle was answered
\* by the process of the current run (the most recently spawned one).
C3_ReadyForCurrentRun ==
    [][(~is_ready /\ is_ready') =>
          \E c \in Callers :
             /\ pc(c) = "er_ready"
             /\ call'[c].pc = "done"
             /\ call[c].served = nspawn]_vars

\* The step is the one ensure_running() call c takes once it holds the lock, while a
\* handle is stored whose process has not exited and is_ready is true.
CalledWhileReady(c) ==
    /\ pc(c) = "er_lock"
    /\ call'[c] # call[c]
    /\ child # 0
    /\ proc[child] = "alive"
    /\ is_ready

\* Nothing is spawned and the handle, the port, the prefix and is_ready are kept.
NothingRelaunched == UNCHANGED <<child, port, api_prefix, is_ready, nspawn, proc>>

\* C4 (as stated): called while ready, ensure_running() returns success without
\* spawning and leaves the handle, discoveredPort, apiPrefix and is_ready unchanged.
C4_IdempotentSuccess ==
    [][\A c \in Callers :
          CalledWhileReady(c) =>
             /\ call'[c].pc = "done"
             /\ call'[c].result = "ok"
             /\ NothingRelaunched]_vars

\* C4 (amended): called while ready, ensure_running() returns at once without spawning
\* and leaves the handle, discoveredPort, apiPrefix and is_ready unchanged; it returns
\* success unless the exit-status query of the handle fails, and then that error.
C4_IdempotentUnlessQueryFails ==
    [][\A c \in Callers :
          CalledWhileReady(c) =>
             /\ call'[c].pc = "done"
             /\ call'[c].result \in {"ok", "trywait"}
             /\ NothingRelaunched]_vars

\* C4, its case: two ensure_running() calls have both returned success on a ready
\* supervisor with a live handle, and one child was spawned in all.
C4_Witness ==
    /\ \A c \in Callers : op(c) = "ensure_running" /\ pc(c) = "done" /\ call[c].result = "ok"
    /\ nspawn = 1
    /\ is_ready
    /\ child = 1
    /\ proc[1] = "alive"

\* restart() call c has removed the old handle and has not yet stored the new one.
RestartReplacing(c) ==
    /\ op(c) = "restart"
    /\ call[c].gs_child # 0
    /\ pc(c) \in {"gs_wkill", "gs_wait1", "gs_kill", "gs_wait2", "rs_sleep", "er_lock", "sp_wait"}

\* C5: from the removal of the old handle by a restart() until that restart() stores
\* the new handle, no other ensure_running(), restart() or shutdown() call creates,
\* replaces or removes the handle.
C5_HandleEffectsSerialized ==
    [][\A c \in Callers :
          (RestartReplacing(c) /\ child' # child) =>
             \/ call'[c] # call[c]
             \/ \E d \in Callers : op(d) = "is_child_running" /\ call'[d] # call[d]]_vars

\* C6: shutdown() always returns success.
C6_ShutdownSucceeds ==
    \A c \in Callers :
       (op(c) = "shutdown" /\ pc(c) = "done") => call[c].result = "ok"

\* The step is the one the Shutdown Sequencer of call c takes once it holds the lock.
SequencerRuns(c) == pc(c) = "gs" /\ call'[c] # call[c]

\* The sequencer of call c has returned r to its operation.
SequencerReturned(c, r) ==
    IF op(c) = "restart" /\ r = "ok"
    THEN call'[c].pc = "rs_sleep"
    ELSE call'[c].pc = "done" /\ call'[c].result = r

\* C7: run with no handle stored, or with a handle whose process has exited, the
\* Shutdown Sequencer returns at once and sends no signal; it returns success, always
\* with no handle and whenever the exit of the process is observed (the one other
\* outcome is the failure of the exit-status query).
C7_NoSignalWhenGone ==
    [][\A c \in Callers :
          (SequencerRuns(c) /\ (child = 0 \/ proc[child] # "alive")) =>
             /\ sigs' = sigs
             /\ lock' = 0
             /\ \/ SequencerReturned(c, "ok")
                \/ child # 0 /\ SequencerReturned(c, "trywait")]_vars

\* C7, its case: the sequencer of a restart() took the handle of an exited process
\* and returned success, and that process was sent no signal.
C7_Witness ==
    \E c \in Callers :
       /\ op(c) = "restart"
       /\ pc(c) = "rs_sleep"
       /\ call[c].gs_child # 0
       /\ proc[call[c].gs_child] = "exited"
       /\ sigs[call[c].gs_child] = "none"

\* The step sends signal k to child q.
Sends(q, k) == sigs'[q] = k /\ sigs[q] # k

\* The step is the expiry of the first bound for the sequencer that stops child q.
FirstBoundExpires(q) ==
    \E c \in Callers :
       /\ pc(c) = "gs_wait1"
       /\ call[c].gs_child = q
       /\ call'[c].pc \in {"gs_kill", "gs_wait2"}

\* The parts of the escalation order that hold on every platform: the first bound
\* expires only for a process that has not exited; a forceful kill is sent only to a
\* process that has not exited; a sequencer whose process exited within the first
\* bound returns success without a kill; after the second bound it returns success.
EscalationCommon ==
    /\ \A q \in Pids : FirstBoundExpires(q) => proc[q] = "alive"
    /\ \A q \in Pids : Sends(q, "kill") => proc[q] = "alive"
    /\ \A c \in Callers :
          (pc(c) = "gs_wait1" /\ call'[c] # call[c] /\ proc[call[c].gs_child] # "alive") =>
             SequencerReturned(c, "ok") /\ sigs' = sigs
    /\ \A c \in Callers :
          (pc(c) = "gs_wait2" /\ call'[c] # call[c]) => SequencerReturned(c, "ok")

C9_NoPortNoPolling ==
    [][\A c \in Callers :
          (/\ desired_port = 0
           /\ op(c) = "ensure_running"
           /\ pc(c) = "wp"
           /\ ~call[c].ann
           /\ call'[c].pc # "wp") =>
             (call'[c].pc = "done" /\ call'[c].result = "port_timeout")]_vars

\* C10: with a dynamic port, discoveredPort is absent at every spawn after the first.
C10_PortClearedBeforeRelaunch ==
    [][(desired_port = 0 /\ nspawn >= 1 /\ nspawn' = nspawn + 1) => port = NoPort]_vars

\* C11: on a supervisor with a configured port, restart() never clears discoveredPort,
\* and when a restart() called with a discovered port returns, current_port() is the
\* value it had when the restart() was called.
C11_FixedPortKeptAcrossRestart ==
    [][/\ (desired_port # 0 /\ port # NoPort) => port' # NoPort
       /\ \A c \in Callers :
             (/\ desired_port # 0
              /\ op(c) = "restart"
              /\ InFlight(c)
              /\ call'[c].pc = "done"
              /\ call[c].port0 # NoPort) =>
                port' = call[c].port0]_vars

\* C12: at the relaunch spawn made by a restart() on a supervisor with a dynamic port,
\* discoveredPort is absent and apiPrefix is empty.
C12_CleanAtRelaunchSpawn ==
    [][\A c \in Callers :
          (desired_port = 0 /\ op(c) = "restart" /\ Spawns(c)) =>
             (port = NoPort /\ api_prefix = EMPTY)]_vars

\* The lines of `input`, by position, that hold a URL match.
Matches(s) == {i \in 1..Len(s) : s[i].match}

\* Those whose port digits are a port number (at most 65535).
PortMatches(s) == {i \in Matches(s) : s[i].digits <= U16Max}

\* Those that carry a path other than the bare root.
PathMatches(s) == {i \in Matches(s) : s[i].path \notin {NoPath, ROOT}}

\* The last position of a non-empty set of positions.
Last(S) == CHOOSE i \in S : \A j \in S : j <= i

Ingested == input'[Len(input')]

Acceptable(resp) ==
    /\ resp.status = "success"
    /\ \E k \in 1..Len(resp.body) :
          /\ resp.body[k] \in {"{", "["}
          /\ \A j \in 1..(k - 1) : IsSpace(resp.body[j])

\* The step is the probe of the first candidate by call c, answered by a live child.
ProbesFirst(c) == pc(c) = "dp0" /\ call'[c] # call[c] /\ Responders(port) # {}

\* The step is the probe of /api by call c, answered by a live child.
ProbesSecond(c) == pc(c) = "dp1" /\ call'[c] # call[c] /\ Responders(call[c].lport) # {}

\* C15: Endpoint Discovery probes the empty prefix and then /api, and stores the first
\* candidate whose probe was acceptable; /api is probed only if the empty prefix was
\* rejected; a success status with another body is a rejection.
C15_FirstAcceptableCandidate ==
    [][\A c \in Callers :
          /\ ProbesFirst(c) =>
                IF Acceptable(input[1])
                THEN api_prefix' = EMPTY /\ call'[c].pc = "wr_cycle"
                ELSE api_prefix' = api_prefix /\ call'[c].pc = "dp1"
          /\ ProbesSecond(c) =>
                /\ ~Acceptable(input[1])
                /\ Acceptable(input[2]) => api_prefix' = API
                /\ call'[c].pc = "wr_cycle"]_vars

\* C15, its case: the empty prefix answered a page with a success status, /api
\* answered JSON, and the call polls with the prefix /api.
C15_Witness ==
    /\ input = <<Response("success", <<"<">>), Response("success", <<" ", "{">>)>>
    /\ pc(1) = "wr_cycle"
    /\ api_prefix = API

\* C16: when no candidate is accepted, Endpoint Discovery stores the empty prefix and
\* the call goes on to readiness polling, which starts with the empty prefix.
C16_DiscoveryNotFatal ==
    [][\A c \in Callers :
          (/\ pc(c) = "dp1"
           /\ call'[c] # call[c]
           /\ ~(Responders(call[c].lport) # {} /\ Acceptable(input[2]))) =>
             /\ api_prefix' = EMPTY
             /\ call'[c].pc = "wr_cycle"
             /\ call'[c].lport = port]_vars

\* C16, its case: both candidates answered with a failure status and the call is
\* polling with the empty prefix.
C16_Witness ==
    /\ \A i \in 1..2 : input[i].status = "failure"
    /\ pc(1) = "wr_cycle"
    /\ api_prefix = EMPTY
    /\ proc[call[1].sp_child] = "alive"

\* C17: a poll cycle ends the polling with success only if /config and /agent both
\* answered with a success status in that cycle; after any other cycle the call
\* keeps polling, and it leaves the polling otherwise only by the readiness timeout;
\* is_ready is stored true only after such a cycle.
C17_BothInOneCycle ==
    [][/\ \A c \in Callers :
             /\ (pc(c) = "wr_cycle" /\ call'[c] # call[c]) =>
                   \/ call'[c].pc = "er_ready" /\ call'[c].cycle = <<"ok", "ok">>
                   \/ call'[c].pc = "wr_cycle" /\ call'[c].cycle # <<"ok", "ok">>
                   \/ call'[c].pc = "done" /\ call'[c].result = "not_ready"
             /\ (pc(c) = "er_ready" /\ call'[c] # call[c]) =>
                   call[c].cycle = <<"ok", "ok">>
       /\ (is_ready' /\ ~is_ready) =>
             \E c \in Callers : pc(c) = "er_ready" /\ call'[c] # call[c]]_vars

\* C17, its case: the last cycle of a polling call had /agent succeed and /config
\* fail, and the supervisor is not ready.
C17_Witness ==
    /\ pc(1) = "wr_cycle"
    /\ call[1].cycle = <<"fail", "ok">>
    /\ ~is_ready

\* The failure detail of a failed poll cycle: that of /config when it failed, that of
\* /agent otherwise.
DetailOf(cycle) == IF cycle[1] # "ok" THEN "config_failed" ELSE "agent_failed"

\* C18: when the deadline passes, the call fails with the readiness error, which
\* carries the failure detail of the last poll cycle executed, and is_ready is not
\* set true.
C18_LastCycleDetail ==
    [][\A c \in Callers :
          (pc(c) = "wr_cycle" /\ call'[c].pc = "done") =>
             /\ call'[c].result = "not_ready"
             /\ call[c].cycle # <<>> => call'[c].detail = DetailOf(call[c].cycle)
             /\ ~is_ready']_vars

\* C18, its case: a call has failed with the readiness error carrying the detail of
\* /agent, and the supervisor is not ready.
C18_Witness ==
    /\ pc(1) = "done"
    /\ call[1].result = "not_ready"
    /\ call[1].detail = "agent_failed"
    /\ ~is_ready

\* The step is the end of the liveness window of the spawn made by call c.
WindowEnds(c) == pc(c) = "sp_wait" /\ call'[c].pc # "sp_wait"

\* The spawn of call c succeeds: the handle of the new process is stored and the
\* call goes on.
SpawnSucceeds(c) ==
    /\ child' = call[c].sp_child
    /\ call'[c].pc = AfterStore
    /\ lock' = 0

\* The spawn of call c fails with the early-exit error and stores nothing.
SpawnFailsEarly(c) ==
    /\ call'[c].pc = "done"
    /\ call'[c].result = "early_exit"
    /\ child' = child
    /\ child' # call[c].sp_child
    /\ lock' = 0

\* C19: the liveness window ends in success once a line was observed; it
\* ends in the early-exit error only if the process has exited with no line
\* observed, and then no handle of the new process is stored and is_ready is false;
\* it ends in success, with the handle stored, when the window elapses with neither.
C19_LivenessWindow ==
    [][\A c \in Callers :
          WindowEnds(c) =>
             /\ SpawnSucceeds(c) \/ SpawnFailsEarly(c)
             /\ call[c].sig => SpawnSucceeds(c)
             /\ proc[call[c].sp_child] = "alive" => SpawnSucceeds(c)
             /\ SpawnFailsEarly(c) => ~is_ready']_vars

\* C20: when no binary was resolved, nothing is ever spawned; every ensure_running()
\* call fails at once with the unavailable error and leaves the handle,
\* discoveredPort, apiPrefix, is_ready and is_shutting_down unchanged; every restart()
\* call that returns fails with that error, having spawned nothing.
C20_NoBinaryNoSpawn ==
    [][~binary =>
          /\ nspawn = 0 /\ nspawn' = 0
          /\ child = 0 /\ child' = 0
          /\ \A c \in Callers :
                /\ (pc(c) = "idle" /\ call'[c].op = "ensure_running") =>
                      /\ call'[c].pc = "done"
                      /\ call'[c].result = "unavailable"
                      /\ UNCHANGED <<child, port, api_prefix, is_ready, shutting_down>>
                /\ (op(c) = "restart" /\ InFlight(c) /\ call'[c].pc = "done") =>
                      call'[c].result = "unavailable"]_vars

\* C20, its case: without a binary, an ensure_running() call and a restart() call
\* have both failed with the unavailable error and nothing was spawned.
C20_Witness ==
    /\ ~binary
    /\ nspawn = 0
    /\ \E c \in Callers :
          op(c) = "ensure_running" /\ pc(c) = "done" /\ call[c].result = "unavailable"
    /\ \E c \in Callers :
          op(c) = "restart" /\ pc(c) = "done" /\ call[c].result = "unavailable"

\* The candidates of binary resolution, in the stated order: the override when it is
\* set and non-empty, the binary exported by the login shell, opencode in each
\* directory of the login-shell PATH in turn, the fallback under the home directory.
OrderedCandidates(i) ==
    (IF i.override \notin {Unset, <<>>} THEN <<i.override>> ELSE <<>>)
    \o (IF i.shell_binary # Unset THEN <<i.shell_binary>> ELSE <<>>)
    \o (IF i.shell_path # Unset
        THEN [k \in 1..Len(i.shell_path) |-> InDir(i.shell_path[k])]
        ELSE <<>>)
    \o (IF i.home # Unset THEN <<HomeFallback(i.home)>> ELSE <<>>)

\* The positions of the candidates that exist.
Existing(i) == {k \in 1..Len(OrderedCandidates(i)) : OrderedCandidates(i)[k] \in i.fs}

\* C21: binary resolution returns the first candidate, in the stated order, that
\* exists, and unavailable when none does; with the disable flag set it returns
\* unavailable whatever the candidates (and check_cli_exists() agrees).
C21_FirstExistingCandidate ==
    \A c \in Callers :
       /\ (pc(c) = "done" /\ op(c) = "resolve_opencode_binary") =>
             /\ call[c].result =
                   IF input.disable \/ Existing(input) = {} THEN Unset
                   ELSE OrderedCandidates(input)[CHOOSE k \in Existing(input) :
                                                   \A j \in Existing(input) : k <= j]
             /\ binary = (call[c].result # Unset)
       /\ (pc(c) = "done" /\ op(c) = "check_cli_exists") =>
             call[c].result = (~input.disable /\ Existing(input) # {})

\* C21, its case: the override is set but its file does not exist, the login shell
\* exports no binary, opencode is missing from the first PATH directory and present in
\* the second and under the home directory: the one of the second directory is chosen.
C21_Witness ==
    /\ pc(1) = "done"
    /\ op(1) = "resolve_opencode_binary"
    /\ ~input.disable
    /\ input.override = OverridePath
    /\ input.shell_binary = Unset
    /\ input.shell_path = <<"/d1", "/d2">>
    /\ input.fs = {InDir("/d2"), HomeFallback(Home)}
    /\ call[1].result = InDir("/d2")

\* C22: rewrite_path maps /api to /, /api followed by a non-empty rest to that rest,
\* and returns every path that does not start with /api unchanged, whatever the
\* discovered port and prefix are.
C22_StripsRoutingPrefix ==
    \A c \in Callers :
       (pc(c) = "done" /\ op(c) = "rewrite_path") =>
          /\ input = API => call[c].result = ROOT
          /\ \A k \in 5..Len(input) :
                SubSeq(input, 1, 4) = API => call[c].result = SubSeq(input, 5, Len(input))
          /\ (Len(input) < 4 \/ SubSeq(input, 1, 4) # API) => call[c].result = input

\* C22, its case: /api/ was rewritten to / on a supervisor whose discovered prefix
\* is /v2.
C22_Witness ==
    /\ input = <<"/", "a", "p", "i", "/">>
    /\ api_prefix = V2
    /\ pc(1) = "done"
    /\ call[1].result = ROOT

\* The step is a call of operation o by caller c.
Calls(c, o) == pc(c) = "idle" /\ call'[c].pc = "done" /\ call'[c].op = o

\* C23: set_working_directory changes the stored directory only (no handle, port,
\* prefix, flag, process or signal changes) and nothing else changes it, so that
\* get_working_directory, which returns the stored one, returns the last directory
\* set; a spawn launches the child in the directory stored at that time, and the
\* directory of a process already launched never changes.
C23_OnlyTheNextSpawn ==
    [][/\ \A c \in Callers :
             Calls(c, "set_working_directory") =>
                /\ working_dir' = call'[c].detail
                /\ UNCHANGED <<shared, world>>
       /\ (\A c \in Callers : ~Calls(c, "set_working_directory")) =>
             working_dir' = working_dir
       /\ \A c \in Callers :
             Calls(c, "get_working_directory") =>
                /\ call'[c].result = working_dir
                /\ UNCHANGED <<working_dir, shared, world>>
       /\ nspawn' = nspawn + 1 => cwd'[nspawn + 1] = working_dir
       /\ \A q \in 1..nspawn : cwd'[q] = cwd[q]]_vars

\* C23, its case: the directory was changed while child 1 ran in the first one, and
\* child 2 was launched in the new one.
C23_Witness ==
    /\ nspawn = 2
    /\ cwd[1] = "/w1"
    /\ cwd[2] = "/w2"
    /\ proc[2] = "alive"
    /\ pc(2) = "done"
    /\ op(2) = "get_working_directory"
    /\ call[2].result = "/w2"

\* C24: in every reachable state each of the four status reads can complete, for a
\* thread that is not inside another call.
C24_StatusReadsNeverBlock ==
    \A c \in Callers : \A o \in StatusOps :
       pc(c) = "idle" => ENABLED StatusRead(c, o)

\* C24, its case: the port was read while the first-stage wait of the Sequencer
\* held the lock of the handle.
C24_Witness ==
    /\ pc(1) = "gs_wait1"
    /\ lock = 1
    /\ pc(2) = "done"
    /\ op(2) = "current_port"
    /\ call[2].result = BasePort + 1

\* C25: under fair scheduling and advancing time every call of ensure_running,
\* restart and shutdown returns, whatever the child does.
C25_EveryCallReturns ==
    \A c \in Callers :
       (InFlight(c) /\ op(c) \in {"ensure_running", "restart", "shutdown"}) ~> (pc(c) = "done")

\* C26: the step that begins shutdown() stores is_shutting_down = true and
\* is_ready = false without touching the handle or signalling; every later step
\* of that call that removes the handle or sends a signal is taken with
\* is_shutting_down already true.
C26_MarkedBeforeSequencer ==
    [][\A c \in Callers :
          /\ (pc(c) = "idle" /\ call'[c].op = "shutdown") =>
                /\ shutting_down' = TRUE
                /\ is_ready' = FALSE
                /\ UNCHANGED <<child, nspawn, proc, sigs>>
          /\ (op(c) = "shutdown" /\ call'[c] # call[c] /\ (sigs' # sigs \/ child' # child)) =>
                shutting_down]_vars

\* C26, its case: shutdown has removed the handle and sent SIGTERM.
C26_Witness ==
    \E c \in Callers :
       /\ op(c) = "shutdown"
       /\ pc(c) = "gs_wait1"
       /\ child = 0
       /\ sigs[call[c].gs_child] = "term"
       /\ shutting_down

\* The suspension points of ensure_running and the order of its phases.
ErPcs == {"er_lock", "sp_wait", "wp", "dp0", "dp1", "wr_cycle", "er_ready"}
Phases ==
    {<<"er_lock", "sp_wait">>, <<"sp_wait", IF desired_port = 0 THEN "wp" ELSE "dp0">>,
     <<"wp", "dp0">>, <<"dp0", "dp1">>, <<"dp0", "wr_cycle">>, <<"dp1", "wr_cycle">>,
     <<"wr_cycle", "er_ready">>, <<"er_ready", "done">>}

\* The phase at pc fails or returns early: the call returns from there.
Leaves(c) == pc(c) \in ErPcs \ {"er_ready"} /\ call'[c].pc = "done"

\* The step of caller c issues a request of Endpoint Discovery or of the Readiness
\* Poller.
Requests(c) ==
    /\ call'[c].pc # pc(c)
    /\ \/ pc(c) = "dp0" /\ call'[c].pc # "done"
       \/ pc(c) = "dp1"
       \/ pc(c) = "wr_cycle" /\ call'[c].pc = "er_ready"

\* C27: the phases of ensure_running follow one another in the fixed order, the port
\* wait only with a dynamic port, discovery once, and is_ready = true is stored by
\* the last step, which changes nothing else; a failed phase returns; no request is
\* issued while the discovered port is absent.
C27_FixedPhases ==
    [][\A c \in Callers :
          /\ (pc(c) \in ErPcs /\ call'[c].pc # pc(c)) =>
                /\ <<pc(c), call'[c].pc>> \in Phases \/ Leaves(c)
                /\ call'[c].pc = "sp_wait" => ~is_ready'
                /\ (is_ready' /\ ~is_ready) => pc(c) = "er_ready"
                /\ pc(c) = "er_ready" =>
                      /\ is_ready'
                      /\ call'[c].result = "ok"
                      /\ UNCHANGED <<child, lock, port, api_prefix, shutting_down, world>>
          /\ Requests(c) => port # NoPort]_vars

\* C28: on a supervisor with a configured port, in every state after the first spawn
\* the stored port is the configured one.
C28_FixedPortIsConfigured ==
    (desired_port # 0 /\ nspawn >= 1) => port = desired_port

\* C29: in every state in which is_ready is true a handle is stored and its process
\* has not exited.
C29_ReadyOnlyWhileThere ==
    is_ready => (child # 0 /\ proc[child] = "alive")

\* The step in which is_child_running, holding the lock, looks at the handle.
Detects(c) == pc(c) = "icr" /\ call'[c].pc = "done"

\* C30, as stated: with a handle whose process has exited the call removes it,
\* clears is_ready and returns false; with a running process it returns true and
\* changes nothing; with no handle it returns false and changes nothing; it never
\* changes the port, the prefix or is_shutting_down, signals or spawns.
C30_ExitDetection ==
    [][\A c \in Callers :
          Detects(c) =>
             /\ (child # 0 /\ proc[child] = "exited") =>
                   child' = 0 /\ is_ready' = FALSE /\ call'[c].result = "false"
             /\ (child # 0 /\ proc[child] = "alive") =>
                   call'[c].result = "true" /\ UNCHANGED <<child, is_ready>>
             /\ child = 0 => call'[c].result = "false" /\ UNCHANGED <<child, is_ready>>
             /\ UNCHANGED <<port, api_prefix, shutting_down, world>>]_vars

\* C30, amended: the same, unless the query of the exit status fails; then the call
\* returns that error and changes nothing.
C30_ExitDetectionUnlessQueryFails ==
    [][\A c \in Callers :
          Detects(c) =>
             /\ (child # 0 /\ proc[child] = "exited" /\ call'[c].result # "trywait") =>
                   child' = 0 /\ is_ready' = FALSE /\ call'[c].result = "false"
             /\ (child # 0 /\ proc[child] = "alive" /\ call'[c].result # "trywait") =>
                   call'[c].result = "true" /\ UNCHANGED <<child, is_ready>>
             /\ child = 0 => call'[c].result = "false" /\ UNCHANGED <<child, is_ready>>
             /\ call'[c].result = "trywait" => child # 0 /\ UNCHANGED <<child, is_ready>>
             /\ UNCHANGED <<port, api_prefix, shutting_down, world>>]_vars

\* C30, its case: while an ensure_running that has stored the handle of child 1 goes
\* on, child 1 exits and is_child_running, the only other call, removes the handle
\* and returns false.
C30_Witness ==
    \E c, d \in Callers :
       /\ op(c) = "is_child_running"
       /\ pc(c) = "done"
       /\ call[c].result = "false"
       /\ op(d) = "ensure_running"
       /\ pc(d) \in {"wp", "dp0", "dp1", "wr_cycle", "er_ready"}
       /\ ncalls = 2
       /\ nspawn = 1
       /\ proc[1] = "exited"
       /\ child = 0
       /\ ~is_ready

\* C31: wait_for_ready takes the port once, when polling begins, and keeps it; each
\* cycle probes the base URL made of that port and of the prefix stored when the
\* cycle begins, whatever the readers have written to the port since.
C31_PortOncePrefixPerCycle ==
    [][\A c \in Callers :
          /\ (pc(c) \in {"dp0", "dp1"} /\ call'[c].pc = "wr_cycle") => call'[c].lport = port
          /\ (pc(c) \in {"wr_cycle", "wr_req"} /\ call'[c].pc \in {"wr_cycle", "wr_req"}) =>
                call'[c].lport = call[c].lport
          /\ (pc(c) = "wr_cycle" /\ call'[c].pc = "wr_req") =>
                call'[c].probed = <<call[c].lport, api_prefix>>
          /\ pc(c) = "wr_req" => call'[c].probed = call[c].probed]_vars

\* C31, its case: after a failed cycle, a later cycle probes the prefix /api that a
\* reader wrote during polling, on the port of the start of polling, while the
\* readers have stored another port.
C31_Witness ==
    /\ pc(1) = "wr_req"
    /\ call[1].last_error # "none"
    /\ call[1].probed = <<FixedPort, API>>
    /\ port = BasePort + 1
    /\ api_prefix = API

\* The step in which the port-discovery or the readiness deadline of caller c passes.
StartupTimesOut(c) ==
    /\ pc(c) \in {"wp", "wr_cycle"}
    /\ call'[c].pc = "done"
    /\ call'[c].result \in {"port_timeout", "not_ready"}

\* The step in which caller c, holding the lock, finds the stored handle live and
\* the supervisor not ready.
FindsLiveNotReady(c) ==
    /\ pc(c) = "er_lock"
    /\ call'[c].pc # "er_lock"
    /\ child # 0
    /\ proc[child] = "alive"
    /\ ~is_ready
    /\ call'[c].result # "trywait"

\* C32: a startup that times out after its spawn returns the error with is_ready
\* false, and leaves the spawned process unsignalled and its handle stored; the
\* next ensure_running that finds this handle live goes on to spawn (the launch
\* itself succeeds or fails) and, when its window ends, replaces the handle; the
\* earlier process is never signalled.
C32_FailedStartupLeavesProcess ==
    [][\A c \in Callers :
          /\ StartupTimesOut(c) =>
                /\ ~is_ready'
                /\ child = call[c].sp_child
                /\ UNCHANGED <<child, world>>
          /\ FindsLiveNotReady(c) =>
                /\ \/ call'[c].pc = "sp_wait" /\ nspawn' = nspawn + 1
                   \/ call'[c].pc = "done" /\ call'[c].result = "launch"
                /\ UNCHANGED <<child, sigs>>
                /\ proc'[child] = "alive"
          /\ (pc(c) = "sp_wait" /\ child' # child) =>
                /\ child' = call[c].sp_child
                /\ UNCHANGED <<proc, sigs>>]_vars

\* C32, its case: the first startup timed out, the second ensure_running spawned
\* child 2 and stored its handle, and child 1 runs on, never signalled.
C32_Witness ==
    /\ ncalls = 2
    /\ nspawn = 2
    /\ child = 2
    /\ proc[1] = "alive"
    /\ sigs[1] = "none"
    /\ proc[2] = "alive"
    /\ ~is_ready
    /\ op(1) = "ensure_running"
    /\ pc(1) \in {"wp", "dp0"}

\* C33: in SpecShutdown, where no call is started after a shutdown() has returned:
\* once shutdown() and every ensure_running() and restart() in flight with it
\* have returned, is_ready is false and no handle is stored.
C33_NothingLeftAfterShutdown ==
    (ShutdownReturned /\ \A c \in Callers : ~InFlight(c))
       => (~is_ready /\ child = 0)

\* Caller c is in port discovery, Endpoint Discovery or readiness polling.
Polling(c) == pc(c) \in {"wp", "dp0", "dp1", "wr_cycle", "wr_req", "er_ready"}

\* C34: a call of ensure_running holds the lock of the handle from its liveness
\* check to the end of its liveness window only, and not while it discovers or
\* polls; a shutdown() or restart() that waits for the lock while another call is
\* polling can take it (unless a third call holds it).
C34_LockNotHeldWhilePolling ==
    \A c \in Callers :
       /\ (lock = c /\ pc(c) \in ErPcs) => pc(c) = "sp_wait"
       /\ Polling(c) =>
             /\ lock # c
             /\ \A d \in Callers \ {c} :
                   (pc(d) = "gs" /\ lock \in {0, c}) => ENABLED GS_Begin(d)

\* C34, its case: while caller c polls, a shutdown() has taken the lock and the
\* handle that c stored, and waits for that process to exit.
C34_Witness ==
    \E c, d \in Callers :
       /\ pc(c) = "wr_cycle"
       /\ op(d) = "shutdown"
       /\ pc(d) = "gs_wait1"
       /\ lock = d
       /\ call[d].gs_child = call[c].sp_child

\* C35: when ensure_running returns success after its polling, the stored port and
\* the stored prefix are the port and the prefix of the base URL that the last,
\* successful poll cycle probed.
C35_PublishedIsProbed ==
    [][\A c \in Callers :
          (pc(c) = "er_ready" /\ call'[c].pc = "done" /\ call'[c].result = "ok") =>
             /\ port' = call[c].probed[1]
             /\ api_prefix' = call[c].probed[2]]_vars

\* Caller c is in the Shutdown Sequencer (graceful_stop), from its wait for the lock.
Sequencing(c) == pc(c) \in {"gs", "gs_wkill", "gs_wait1", "gs_kill", "gs_wait2"}

\* C36: when the Shutdown Sequencer of a shutdown() or restart() finishes, with
\* success or with an error, no handle is stored, whatever became of the process;
\* and only the end of the liveness window of a spawn stores a handle.
C36_SequencerRemovesHandle ==
    [][(\A c \in Callers : (Sequencing(c) /\ ~Sequencing(c)') => child' = 0)
       /\ ((child' # child /\ child' # 0) =>
              \E d \in Callers : pc(d) = "sp_wait" /\ child' = call[d].sp_child)]_vars

\* C36, its case: shutdown() has returned success after the forceful kill, the
\* process it found still runs, and no handle is stored.
C36_Witness ==
    \E c \in Callers :
       /\ op(c) = "shutdown"
       /\ pc(c) = "done"
       /\ call[c].result = "ok"
       /\ nspawn = 1
       /\ proc[1] = "alive"
       /\ sigs[1] = "kill"
       /\ child = 0

\* C37: is_shutting_down is false at construction, it becomes true only in the
\* step that begins a shutdown(), and once true it is true in every later state:
\* no step of any operation resets it.
C37_ShuttingDownMonotonic ==
    /\ ~shutting_down
    /\ [][/\ shutting_down => shutting_down'
          /\ (~shutting_down /\ shutting_down') =>
                \E c \in Callers : pc(c) = "idle" /\ call'[c].op = "shutdown"]_vars

\* C37, its case: after a shutdown() an ensure_running() has spawned and returned
\* success, and is_shutting_down is still true.
C37_Witness ==
    \E c \in Callers :
       /\ op(c) = "ensure_running"
       /\ pc(c) = "done"
       /\ call[c].result = "ok"
       /\ is_ready
       /\ child # 0
       /\ shutting_down

\* C38: the stored port, when present, is within 0..65535; a URL line whose port
\* digits exceed 65535 leaves the stored port as it was, neither truncated nor
\* cleared, while its path, when it is neither empty nor the root, is stored as the
\* prefix.
C38_PortIsU16 ==
    [][/\ port' = NoPort \/ port' \in 0..U16Max
       /\ (input' # input /\ Ingested.match /\ Ingested.digits > U16Max) =>
             /\ port' = port
             /\ api_prefix' = IF Ingested.path \in {NoPath, EMPTY, ROOT}
                              THEN api_prefix
                              ELSE Ingested.path]_vars

\* C38, its case: after a line set the port 4097, a line "http://host:70000/api"
\* was ingested: the port is still 4097 and the prefix is /api.
C38_Witness ==
    /\ Len(input) = 2
    /\ input[1] = Line(TRUE, BasePort + 1, NoPath)
    /\ input[2] = Line(TRUE, BigPort, API)
    /\ port = BasePort + 1
    /\ api_prefix = API

\* C39: for every inbound path that begins with "/", the path rewrite_path returns
\* begins with "/".
C39_RewrittenIsAbsolute ==
    \A c \in Callers :
       (pc(c) = "done" /\ op(c) = "rewrite_path" /\ Len(input) > 0 /\ input[1] = "/") =>
          /\ Len(call[c].result) > 0
          /\ call[c].result[1] = "/"

====
